---- MODULE Spec2Model ----
(***************************************************************************)
(* Model of Comm/FTPGet.py (RO3): one FTPGet object, the threads that call *)
(* start() and abort() on it, and the background thread running _getTask.  *)
(*                                                                         *)
(* The module is Python 3 (it imports urllib.parse), so every operator is  *)
(* given its Python 3 meaning.  Each blocking call of the worker (makedirs, *)
(* open, connect, TYPE, RETR, recv, write, file close) either returns or    *)
(* raises; which of the two is chosen nondeterministically.                 *)
(***************************************************************************)
EXTENDS Integers, Sequences, FiniteSets, TLC

(* ------------------------------ bounds -------------------------------- *)
\* the data stream delivers at most MaxChunks chunks
MaxChunks == 2

(* ------------------------- state constants ---------------------------- *)
Queued == "Queued"
Connecting == "Connecting"
Running == "Running"
Aborting == "Aborting"
Done == "Done"
Aborted == "Aborted"
Failed == "Failed"

_AllStates == {Queued, Connecting, Running, Aborting, Done, Aborted, Failed}
_AbortableStates == {Queued, Connecting, Running}
_DoneStates == {Done, Aborted, Failed}

(* ------------------------------ threads ------------------------------- *)
\* the threads that hold a reference to the object and call start()/abort()
Callers == {"c1", "c2"}
Worker == "worker"
NoOwner == "free"

\* Python's None, for the fields that hold None or a value
None == "None"
\* totBytes is None or a byte count; None is modelled as -1 to keep it an integer
NoTotal == -1

\* the content of a destination file that exists before the transfer; every
\* chunk the transfer writes is a positive length, so this differs from all
\* content the transfer can produce
OldData == <<0>>

\* recv(8192) returns between 1 and 8192 bytes; a short and a long chunk stand for them
ChunkLens == {1, 2}

RECURSIVE SeqSum(_)
SeqSum(s) == IF s = <<>> THEN 0 ELSE Head(s) + SeqSum(Tail(s))

\* all sequences over S of length 0..n
RECURSIVE SeqsUpTo(_, _)
SeqsUpTo(S, n) ==
    IF n = 0 THEN {<<>>}
    ELSE LET shorter == SeqsUpTo(S, n - 1)
         IN  shorter \cup {Append(s, x) : s \in {t \in shorter : Len(t) = n - 1}, x \in S}

VARIABLES
    \* fields of the FTPGet object
    state,          \* self._state
    exception,      \* self._exception: None or the name of the recorded error
    readBytes,      \* self._readBytes
    totBytes,       \* self._totBytes
    toFile,         \* self._toFile: None, "open", or "closed" (a file object whose
                    \*   close() raised: closed by the OS, attribute not yet None)
    fromSocket,     \* self._fromSocket: None or "open"
    lockOwner,      \* holder of self._stateLock
    overwrite,      \* self.overwrite
    createDir,      \* self.createDir
    \* the filesystem at toPath
    dirKind,        \* dirname(toPath): "none" (empty), "missing", "dir", "file"
    fileExists,     \* os.path.exists(toPath)
    fileData,       \* content of the file at toPath, as the sequence of chunks
    dir0,           \* dirKind at construction
    exists0,        \* fileExists at construction
    \* the FTP server
    stream,         \* chunks the data stream has still to deliver
    delivered,      \* chunks recv() has returned so far
    \* the calling threads
    cpc,            \* position of each caller
    cres,           \* how each caller's call in progress is going to end
    inCtor,         \* __init__ is still running start() (startNow)
    \* the worker thread
    wpc,            \* position of the worker
    nextData,       \* local nextData of _getTask: length of the chunk, 0 if empty
    cuNewState,     \* parameter newState of _cleanup
    cuExc,          \* parameter exception of _cleanup
    cuDidOpen,      \* local didOpen of _cleanup
    cuSite,         \* where _cleanup was called from: "try" or "except" ("again"
                    \*   for the further call of CleanupAgain)
    \* history
    launches,       \* number of times _getThread.start() ran
    netTouched,     \* some FTP call was made
    fsTouched,      \* some filesystem call was made
    abortSeen,      \* the abortable states in which the body of abort() has run
    prepErr,        \* the error _toPrep raised, or None
    written,        \* bytes written to the destination file by line 313
    abortPolled,    \* line 309 ran after abort() was called while Running
    faulted         \* some blocking call of the worker has raised

objVars == <<state, exception, readBytes, totBytes, toFile, fromSocket>>
cfgVars == <<overwrite, createDir>>
fsVars == <<dirKind, fileExists, fileData, dir0, exists0>>
netVars == <<stream, delivered>>
callerVars == <<cpc, cres, inCtor>>
cuVars == <<cuNewState, cuExc, cuDidOpen, cuSite>>
histVars == <<launches, netTouched, fsTouched, abortSeen, prepErr, written, abortPolled>>
vars == <<objVars, lockOwner, cfgVars, fsVars, netVars, callerVars, wpc, nextData,
          cuVars, histVars, faulted>>

(* ------------------------------ __init__ ------------------------------ *)
\* The filesystem a transfer can find: toPath can exist only if its directory
\* part is empty or names a directory.
Init ==
    /\ state = Queued
    /\ exception = None
    /\ readBytes = 0
    /\ totBytes = NoTotal
    /\ toFile = None
    /\ fromSocket = None
    /\ lockOwner = NoOwner
    /\ overwrite \in BOOLEAN
    /\ createDir \in BOOLEAN
    /\ dirKind \in {"none", "missing", "dir", "file"}
    /\ fileExists \in BOOLEAN
    /\ fileExists => dirKind \in {"none", "dir"}
    /\ fileData = IF fileExists THEN OldData ELSE <<>>
    /\ dir0 = dirKind
    /\ exists0 = fileExists
    /\ stream \in SeqsUpTo(ChunkLens, MaxChunks)
    /\ delivered = <<>>
    /\ cpc = [c \in Callers |-> "idle"]
    /\ cres = [c \in Callers |-> "none"]
    /\ inCtor \in BOOLEAN
    /\ wpc = "unstarted"
    /\ nextData = 0
    /\ cuNewState = None
    /\ cuExc = None
    /\ cuDidOpen = FALSE
    /\ cuSite = None
    /\ launches = 0
    /\ netTouched = FALSE
    /\ fsTouched = FALSE
    /\ abortSeen = {}
    /\ prepErr = None
    /\ written = 0
    /\ abortPolled = FALSE
    /\ faulted = FALSE

(* ------------------------------- start() ------------------------------ *)
\* While __init__ runs start() (startNow), no other thread has the object.
MayCall(c) == ~inCtor \/ c = "c1"

\* line 146: the test that makes start() raise RuntimeError
StartRefusedWhileActive(s) == s \in {Connecting, Running, Aborting}
StartRefused(s) == s # Queued

\* lines 149-151: what follows the finally clause: the raise leaves start(),
\* otherwise the thread is started
StartAfterFinallyAlwaysLaunch(res) == "start_launch"
StartAfterFinally(res) == IF res = "RuntimeError" THEN "idle" ELSE "start_launch"

\* line 144
StartAcquire(c) ==
    /\ cpc[c] = "idle"
    /\ faulted' = faulted
    /\ MayCall(c)
    /\ lockOwner = NoOwner
    /\ lockOwner' = c
    /\ cpc' = [cpc EXCEPT ![c] = "start_locked"]
    /\ cres' = [cres EXCEPT ![c] = "none"]
    /\ UNCHANGED <<objVars, cfgVars, fsVars, netVars, inCtor, wpc, nextData, cuVars, histVars>>

\* line 148: the state start() sets when it is not refused
StartNewStateKept(s) == s
StartNewState(s) == Connecting

\* lines 146-148
StartBody(c) ==
    /\ cpc[c] = "start_locked"
    /\ faulted' = faulted
    /\ IF StartRefused(state)
       THEN /\ cres' = [cres EXCEPT ![c] = "RuntimeError"]
            /\ state' = state
       ELSE /\ cres' = [cres EXCEPT ![c] = "start_ok"]
            /\ state' = StartNewState(state)
    /\ cpc' = [cpc EXCEPT ![c] = "start_finally"]
    /\ UNCHANGED <<exception, readBytes, totBytes, toFile, fromSocket, lockOwner, cfgVars,
                   fsVars, netVars, inCtor, wpc, nextData, cuVars, histVars>>

\* start() as it would be with the release after the test instead of in a
\* finally clause: the RuntimeError leaves start() with the lock held
StartReleaseSkippedOnRaise(c) ==
    /\ cpc[c] = "start_finally"
    /\ faulted' = faulted
    /\ lockOwner' = IF cres[c] = "RuntimeError" THEN lockOwner ELSE NoOwner
    /\ cpc' = [cpc EXCEPT ![c] = StartAfterFinally(cres[c])]
    /\ IF StartAfterFinally(cres[c]) = "idle"
       THEN inCtor' = FALSE /\ cres' = [cres EXCEPT ![c] = "none"]
       ELSE inCtor' = inCtor /\ cres' = cres
    /\ UNCHANGED <<objVars, cfgVars, fsVars, netVars, wpc, nextData, cuVars, histVars>>

\* lines 149-150; a RuntimeError then leaves start() (and __init__)
StartRelease(c) ==
    /\ cpc[c] = "start_finally"
    /\ faulted' = faulted
    /\ lockOwner' = NoOwner
    /\ cpc' = [cpc EXCEPT ![c] = StartAfterFinally(cres[c])]
    /\ IF StartAfterFinally(cres[c]) = "idle"
       THEN inCtor' = FALSE /\ cres' = [cres EXCEPT ![c] = "none"]
       ELSE inCtor' = inCtor /\ cres' = cres
    /\ UNCHANGED <<objVars, cfgVars, fsVars, netVars, wpc, nextData, cuVars, histVars>>

\* line 151: Thread.start() starts the thread; on a thread already started it
\* raises RuntimeError and starts nothing
StartLaunch(c) ==
    /\ cpc[c] = "start_launch"
    /\ faulted' = faulted
    /\ cpc' = [cpc EXCEPT ![c] = "idle"]
    /\ cres' = [cres EXCEPT ![c] = "none"]
    /\ inCtor' = FALSE
    /\ launches' = launches + 1
    /\ wpc' = IF wpc = "unstarted" THEN "prep" ELSE wpc
    /\ UNCHANGED <<objVars, lockOwner, cfgVars, fsVars, netVars, nextData, cuVars,
                   netTouched, fsTouched, abortSeen, prepErr, written, abortPolled>>

(* ------------------------------- abort() ------------------------------ *)
\* line 161, `self._state > 0`: the state is a str (lines 74-80) and 0 an int.
\* Python 3 defines no order between str and int: the comparison raises TypeError.
StateGtZeroOrdered(s) == "True"
StateGtZero(s) == "TypeError"

\* lines 159-164: the state abort() leaves
AbortNewState(s) ==
    IF s = Queued THEN Aborted
    ELSE IF StateGtZero(s) = "TypeError" THEN s
    ELSE IF StateGtZero(s) = "True" THEN Aborting
    ELSE s

\* lines 159-164: how abort() ends
AbortResult(s) ==
    IF s = Queued THEN "abort_ok"
    ELSE IF StateGtZero(s) = "TypeError" THEN "TypeError"
    ELSE "abort_ok"

\* line 157
AbortAcquire(c) ==
    /\ cpc[c] = "idle"
    /\ faulted' = faulted
    /\ ~inCtor
    /\ lockOwner = NoOwner
    /\ lockOwner' = c
    /\ cpc' = [cpc EXCEPT ![c] = "abort_locked"]
    /\ cres' = [cres EXCEPT ![c] = "none"]
    /\ UNCHANGED <<objVars, cfgVars, fsVars, netVars, inCtor, wpc, nextData, cuVars, histVars>>

\* abort() as it would be if it closed the file itself
AbortBodyClosingFile(c) ==
    /\ cpc[c] = "abort_locked"
    /\ faulted' = faulted
    /\ state' = AbortNewState(state)
    /\ cres' = [cres EXCEPT ![c] = AbortResult(state)]
    /\ abortSeen' = abortSeen \cup ({state} \cap _AbortableStates)
    /\ cpc' = [cpc EXCEPT ![c] = "abort_finally"]
    /\ toFile' = None
    /\ UNCHANGED <<exception, readBytes, totBytes, fromSocket, lockOwner, cfgVars,
                   fsVars, netVars, inCtor, wpc, nextData, cuVars, launches, netTouched,
                   fsTouched, prepErr, written, abortPolled>>

\* lines 159-164
AbortBody(c) ==
    /\ cpc[c] = "abort_locked"
    /\ faulted' = faulted
    /\ state' = AbortNewState(state)
    /\ cres' = [cres EXCEPT ![c] = AbortResult(state)]
    /\ abortSeen' = abortSeen \cup ({state} \cap _AbortableStates)
    /\ cpc' = [cpc EXCEPT ![c] = "abort_finally"]
    /\ UNCHANGED <<exception, readBytes, totBytes, toFile, fromSocket, lockOwner, cfgVars,
                   fsVars, netVars, inCtor, wpc, nextData, cuVars, launches, netTouched,
                   fsTouched, prepErr, written, abortPolled>>

\* lines 165-166; a TypeError then leaves abort()
AbortRelease(c) ==
    /\ cpc[c] = "abort_finally"
    /\ faulted' = faulted
    /\ lockOwner' = NoOwner
    /\ cpc' = [cpc EXCEPT ![c] = "idle"]
    /\ cres' = [cres EXCEPT ![c] = "none"]
    /\ UNCHANGED <<objVars, cfgVars, fsVars, netVars, inCtor, wpc, nextData, cuVars,
                   histVars>>

(* ------------------------------ _toPrep ------------------------------- *)
\* lines 330-344: the error _toPrep raises before it changes anything, or None
ToPrepError(ow, cd, ex, dk) ==
    IF ~ow /\ ex THEN "ValueError:exists"
    ELSE IF dk = "none" THEN None
    ELSE IF dk = "missing" THEN (IF cd THEN None ELSE "ValueError:nodir")
    ELSE IF dk = "file" THEN "RuntimeError:notdir"
    ELSE None

\* lines 337-340: _toPrep calls os.makedirs
ToPrepMakesDir(ow, cd, ex, dk) ==
    ToPrepError(ow, cd, ex, dk) = None /\ dk = "missing" /\ cd

\* the three errors _toPrep raises itself
PreflightErrors == {"ValueError:exists", "ValueError:nodir", "RuntimeError:notdir"}

(* ------------------------------ _getTask ------------------------------ *)
\* lines 268-299: the order of the statements of the try block up to the loop:
\* _toPrep, open the file, connect, set the type, open the stream, set Running
StepAfterNetworkFirst(pc) ==
    CASE pc = "prep" -> "connect"
      [] pc = "connect" -> "type"
      [] pc = "type" -> "open"
      [] pc = "open" -> "retr"
      [] pc = "retr" -> "run_acq"
StepAfter(pc) ==
    CASE pc = "prep" -> "open"
      [] pc = "open" -> "connect"
      [] pc = "connect" -> "type"
      [] pc = "type" -> "retr"
      [] pc = "retr" -> "run_acq"

\* lines 316-317: an exception raised in the try block calls _cleanup(Failed, e)
Raise(e) ==
    /\ wpc' = "cu_file"
    /\ cuNewState' = Failed
    /\ cuExc' = e
    /\ cuSite' = "except"
    /\ cuDidOpen' = cuDidOpen
    /\ faulted' = (faulted \/ e \notin PreflightErrors)

\* line 268
ToPrep ==
    /\ wpc = "prep"
    /\ fsTouched' = TRUE
    /\ LET err == ToPrepError(overwrite, createDir, fileExists, dirKind)
       IN  IF err # None
           THEN /\ Raise(err)
                /\ prepErr' = err
                /\ dirKind' = dirKind
           ELSE /\ prepErr' = prepErr
                /\ IF ToPrepMakesDir(overwrite, createDir, fileExists, dirKind)
                   THEN \E ok \in BOOLEAN :
                            IF ok
                            THEN /\ dirKind' = "dir"
                                 /\ wpc' = StepAfter("prep")
                                 /\ UNCHANGED <<cuVars, faulted>>
                            ELSE /\ dirKind' = dirKind
                                 /\ Raise("OSError:makedirs")
                   ELSE /\ dirKind' = dirKind
                        /\ wpc' = StepAfter("prep")
                        /\ UNCHANGED <<cuVars, faulted>>
    /\ UNCHANGED <<objVars, lockOwner, cfgVars, fileExists, fileData, dir0, exists0, netVars,
                   callerVars, nextData, launches, netTouched, abortSeen, written, abortPolled>>

\* lines 273-277: the content of the file once open(toPath, "w"/"wb") has
\* returned: mode "w" truncates
FileAfterOpenAppending(data) == data
FileAfterOpen(data) == <<>>

\* line 277: open(toPath, "w"/"wb") creates the file or truncates it
OpenFile ==
    /\ wpc = "open"
    /\ fsTouched' = TRUE
    /\ \E ok \in BOOLEAN :
           IF ok
           THEN /\ toFile' = "open"
                /\ fileExists' = TRUE
                /\ fileData' = FileAfterOpen(fileData)
                /\ wpc' = StepAfter("open")
                /\ UNCHANGED <<cuVars, faulted>>
           ELSE /\ Raise("OSError:open")
                /\ UNCHANGED <<toFile, fileExists, fileData>>
    /\ UNCHANGED <<state, exception, readBytes, totBytes, fromSocket, lockOwner, cfgVars,
                   dirKind, dir0, exists0, netVars, callerVars, nextData, launches,
                   netTouched, abortSeen, prepErr, written, abortPolled>>

\* line 282: connect and log in
Connect ==
    /\ wpc = "connect"
    /\ netTouched' = TRUE
    /\ \E ok \in BOOLEAN :
           IF ok THEN wpc' = StepAfter("connect") /\ UNCHANGED <<cuVars, faulted>>
                 ELSE Raise("ftp:connect")
    /\ UNCHANGED <<objVars, lockOwner, cfgVars, fsVars, netVars, callerVars, nextData,
                   launches, fsTouched, abortSeen, prepErr, written, abortPolled>>

\* lines 286-289: TYPE I or TYPE A
SetType ==
    /\ wpc = "type"
    /\ \E ok \in BOOLEAN :
           IF ok THEN wpc' = StepAfter("type") /\ UNCHANGED <<cuVars, faulted>>
                 ELSE Raise("ftp:type")
    /\ UNCHANGED <<objVars, lockOwner, cfgVars, fsVars, netVars, callerVars, nextData,
                   histVars>>

\* line 293: RETR; the server may or may not report the size
OpenStream ==
    /\ wpc = "retr"
    /\ \E ok \in BOOLEAN :
           IF ok
           THEN /\ fromSocket' = "open"
                /\ totBytes' \in {NoTotal, SeqSum(stream)}
                /\ wpc' = StepAfter("retr")
                /\ UNCHANGED <<cuVars, faulted>>
           ELSE /\ Raise("ftp:retr")
                /\ UNCHANGED <<fromSocket, totBytes>>
    /\ UNCHANGED <<state, exception, readBytes, toFile, lockOwner, cfgVars, fsVars, netVars,
                   callerVars, nextData, histVars>>

\* line 297: the state the worker sets once the data stream is open
RunningNewState(s) == Running

\* the worker as it would be if it set Running without taking the lock
RunningAcquireSkipped ==
    /\ wpc = "run_acq"
    /\ faulted' = faulted
    /\ wpc' = "run_locked"
    /\ UNCHANGED <<objVars, lockOwner, cfgVars, fsVars, netVars, callerVars, nextData, cuVars,
                   histVars>>

\* line 295
RunningAcquire ==
    /\ wpc = "run_acq"
    /\ faulted' = faulted
    /\ lockOwner = NoOwner
    /\ lockOwner' = Worker
    /\ wpc' = "run_locked"
    /\ UNCHANGED <<objVars, cfgVars, fsVars, netVars, callerVars, nextData, cuVars, histVars>>

\* line 297
RunningBody ==
    /\ wpc = "run_locked"
    /\ faulted' = faulted
    /\ state' = RunningNewState(state)
    /\ wpc' = "run_finally"
    /\ UNCHANGED <<exception, readBytes, totBytes, toFile, fromSocket, lockOwner, cfgVars,
                   fsVars, netVars, callerVars, nextData, cuVars, histVars>>

\* lines 298-299
RunningRelease ==
    /\ wpc = "run_finally"
    /\ faulted' = faulted
    /\ lockOwner' = NoOwner
    /\ wpc' = "recv"
    /\ UNCHANGED <<objVars, cfgVars, fsVars, netVars, callerVars, nextData, cuVars, histVars>>

\* lines 306-308 and 315: recv; empty data ends the loop and calls _cleanup(Done)
Recv ==
    /\ wpc = "recv"
    /\ \E ok \in BOOLEAN :
           IF ~ok
           THEN /\ Raise("socket:recv")
                /\ UNCHANGED <<nextData, netVars>>
           ELSE IF stream = <<>>
           THEN /\ nextData' = 0
                /\ wpc' = "cu_file"
                /\ cuNewState' = Done
                /\ cuExc' = None
                /\ cuSite' = "try"
                /\ cuDidOpen' = cuDidOpen
                /\ UNCHANGED <<netVars, faulted>>
           ELSE /\ nextData' = Head(stream)
                /\ stream' = Tail(stream)
                /\ delivered' = Append(delivered, Head(stream))
                /\ wpc' = "check"
                /\ UNCHANGED <<cuVars, faulted>>
    /\ UNCHANGED <<objVars, lockOwner, cfgVars, fsVars, callerVars, histVars>>

\* line 309: the test that makes the loop call _cleanup(Aborted) and return
AbortObserved(s) == s = Aborting

\* lines 309-311
CheckAbort ==
    /\ wpc = "check"
    /\ IF AbortObserved(state)
       THEN /\ wpc' = "cu_file"
            /\ cuNewState' = Aborted
            /\ cuExc' = None
            /\ cuSite' = "try"
            /\ cuDidOpen' = cuDidOpen
            /\ faulted' = faulted
       ELSE /\ wpc' = "count"
            /\ UNCHANGED <<cuVars, faulted>>
    /\ abortPolled' = (abortPolled \/ Running \in abortSeen)
    /\ UNCHANGED <<objVars, lockOwner, cfgVars, fsVars, netVars, callerVars, nextData,
                   launches, netTouched, fsTouched, abortSeen, prepErr, written>>

\* line 312: self._readBytes += len(nextData)
ReadBytesAssigned(rb, n) == n
ReadBytesAfter(rb, n) == rb + n

\* line 312
Count ==
    /\ wpc = "count"
    /\ faulted' = faulted
    /\ readBytes' = ReadBytesAfter(readBytes, nextData)
    /\ wpc' = "write"
    /\ UNCHANGED <<state, exception, totBytes, toFile, fromSocket, lockOwner, cfgVars,
                   fsVars, netVars, callerVars, nextData, cuVars, histVars>>

\* line 313
Write ==
    /\ wpc = "write"
    /\ fsTouched' = TRUE
    /\ \E ok \in BOOLEAN :
           IF ok
           THEN /\ fileData' = Append(fileData, nextData)
                /\ written' = written + nextData
                /\ wpc' = "recv"
                /\ UNCHANGED <<cuVars, faulted>>
           ELSE /\ Raise("OSError:write")
                /\ UNCHANGED <<fileData, written>>
    /\ UNCHANGED <<objVars, lockOwner, cfgVars, dirKind, fileExists, dir0, exists0, netVars,
                   callerVars, nextData, launches, netTouched, abortSeen, prepErr,
                   abortPolled>>

(* ------------------------------ _cleanup ------------------------------ *)
\* lines 235-238: a newState that is no done state is replaced by Failed
CleanupState(ns) == IF ns \in _DoneStates THEN ns ELSE Failed

\* line 242, self.isDone (line 184): _cleanup returns without setting the state
CleanupSkipsNever(s) == FALSE
CleanupSkips(s) == s \in _DoneStates

\* line 250: the destination file is removed
CleanupRemoves(didOpen, ns) == didOpen /\ ns \in {Aborted, Failed}

\* lines 250 and 256: the exception is recorded (the test of line 256 is
\* nested in the block of line 250)
CleanupRecords(didOpen, ns) == CleanupRemoves(didOpen, ns) /\ ns = Failed

\* lines 223-225: the value of self._toFile once close() has returned
ClosedFileKept(f) == f
ClosedFile(f) == None

\* lines 222-225.  close() flushes and can raise; the file is closed for the OS
\* either way, and close() on a closed file object does nothing.  An exception
\* raised in _cleanup called from the try block is caught at line 316; raised in
\* _cleanup called from the except clause it ends the thread.
CleanupCloseFile ==
    /\ wpc = "cu_file"
    /\ cuDidOpen' = (toFile # None)
    /\ \E ok \in BOOLEAN :
           IF ok \/ toFile # "open"
           THEN /\ toFile' = ClosedFile(toFile)
                /\ wpc' = "cu_sock"
                /\ UNCHANGED <<cuNewState, cuExc, cuSite, faulted>>
           ELSE /\ toFile' = "closed"
                /\ faulted' = TRUE
                /\ IF cuSite = "try"
                   THEN /\ wpc' = "cu_file"
                        /\ cuNewState' = Failed
                        /\ cuExc' = "OSError:close"
                        /\ cuSite' = "except"
                   ELSE /\ wpc' = "dead"
                        /\ UNCHANGED <<cuNewState, cuExc, cuSite>>
    /\ UNCHANGED <<state, exception, readBytes, totBytes, fromSocket, lockOwner, cfgVars,
                   fsVars, netVars, callerVars, nextData, histVars>>

\* lines 228-238
CleanupCloseSocket ==
    /\ wpc = "cu_sock"
    /\ faulted' = faulted
    /\ fromSocket' = None
    /\ cuNewState' = CleanupState(cuNewState)
    /\ wpc' = "cu_acq"
    /\ UNCHANGED <<state, exception, readBytes, totBytes, toFile, lockOwner, cfgVars, fsVars,
                   netVars, callerVars, nextData, cuExc, cuDidOpen, cuSite, histVars>>

\* line 240
CleanupAcquire ==
    /\ wpc = "cu_acq"
    /\ faulted' = faulted
    /\ lockOwner = NoOwner
    /\ lockOwner' = Worker
    /\ wpc' = "cu_locked"
    /\ UNCHANGED <<objVars, cfgVars, fsVars, netVars, callerVars, nextData, cuVars, histVars>>

\* lines 242-246
CleanupBody ==
    /\ wpc = "cu_locked"
    /\ faulted' = faulted
    /\ IF CleanupSkips(state)
       THEN state' = state /\ wpc' = "cu_finally_return"
       ELSE state' = cuNewState /\ wpc' = "cu_finally"
    /\ UNCHANGED <<exception, readBytes, totBytes, toFile, fromSocket, lockOwner, cfgVars,
                   fsVars, netVars, callerVars, nextData, cuVars, histVars>>

\* lines 247-248; after the return of line 244 _cleanup ends here, and the worker with it
CleanupRelease ==
    /\ wpc \in {"cu_finally", "cu_finally_return"}
    /\ faulted' = faulted
    /\ lockOwner' = NoOwner
    /\ wpc' = IF wpc = "cu_finally_return" THEN "done" ELSE "cu_remove"
    /\ UNCHANGED <<objVars, cfgVars, fsVars, netVars, callerVars, nextData, cuVars, histVars>>

\* lines 250-254: os.remove; the file still exists here, nothing else removes it
CleanupRemove ==
    /\ wpc = "cu_remove"
    /\ faulted' = faulted
    /\ IF CleanupRemoves(cuDidOpen, cuNewState)
       THEN /\ fileExists' = FALSE
            /\ fileData' = <<>>
            /\ fsTouched' = TRUE
       ELSE UNCHANGED <<fileExists, fileData, fsTouched>>
    /\ wpc' = IF CleanupRecords(cuDidOpen, cuNewState) THEN "cu_record" ELSE "done"
    /\ UNCHANGED <<objVars, lockOwner, cfgVars, dirKind, dir0, exists0, netVars, callerVars,
                   nextData, cuVars, launches, netTouched, abortSeen, prepErr, written,
                   abortPolled>>

\* lines 256-257; _cleanup returns and the worker ends (lines 311, 315, 317)
CleanupRecord ==
    /\ wpc = "cu_record"
    /\ faulted' = faulted
    /\ exception' = cuExc
    /\ wpc' = "done"
    /\ UNCHANGED <<state, readBytes, totBytes, toFile, fromSocket, lockOwner, cfgVars, fsVars,
                   netVars, callerVars, nextData, cuVars, histVars>>

Next ==
    \/ \E c \in Callers : StartAcquire(c)
    \/ \E c \in Callers : StartBody(c)
    \/ \E c \in Callers : StartRelease(c)
    \/ \E c \in Callers : StartLaunch(c)
    \/ \E c \in Callers : AbortAcquire(c)
    \/ \E c \in Callers : AbortBody(c)
    \/ \E c \in Callers : AbortRelease(c)
    \/ ToPrep
    \/ OpenFile
    \/ Connect
    \/ SetType
    \/ OpenStream
    \/ RunningAcquire
    \/ RunningBody
    \/ RunningRelease
    \/ Recv
    \/ CheckAbort
    \/ Count
    \/ Write
    \/ CleanupCloseFile
    \/ CleanupCloseSocket
    \/ CleanupAcquire
    \/ CleanupBody
    \/ CleanupRelease
    \/ CleanupRemove
    \/ CleanupRecord

Spec == Init /\ [][Next]_vars

(* ----------------------- _cleanup called once more --------------------- *)
\* No run of _getTask calls _cleanup on a transfer that is already done: the
\* second call is made only when the first raised before it set the state.
\* To check what _cleanup does when it is called again all the same, SpecAgain
\* adds such a call, made by the worker thread after _getTask has finished,
\* with any new state (Running stands for the invalid ones of lines 235-238).
CleanupAgain ==
    /\ wpc = "done"
    /\ wpc' = "cu_file"
    /\ cuNewState' \in _DoneStates \cup {Running}
    /\ cuExc' = IF cuNewState' = Done THEN None ELSE "late"
    /\ cuSite' = "again"
    /\ UNCHANGED <<objVars, lockOwner, cfgVars, fsVars, netVars, callerVars, nextData,
                   cuDidOpen, histVars, faulted>>

NextAgain == Next \/ CleanupAgain

SpecAgain == Init /\ [][NextAgain]_vars

(* ------------------------------ properties ---------------------------- *)
\* the step in which caller c runs the body of abort() (lines 159-164)
AbortBodyStep(c) == cpc[c] = "abort_locked" /\ cpc'[c] = "abort_finally"

\* the step in which caller c runs the body of start() (lines 146-148)
StartBodyStep(c) == cpc[c] = "start_locked" /\ cpc'[c] = "start_finally"

TypeOK ==
    /\ state \in _AllStates
    /\ exception \in {None, "ValueError:exists", "ValueError:nodir", "RuntimeError:notdir",
                      "OSError:makedirs", "OSError:open", "ftp:connect", "ftp:type",
                      "ftp:retr", "socket:recv", "OSError:write", "OSError:close"}
    /\ readBytes \in 0..(2 * MaxChunks)
    /\ totBytes \in {NoTotal} \cup 0..(2 * MaxChunks)
    /\ toFile \in {None, "open", "closed"}
    /\ fromSocket \in {None, "open"}
    /\ lockOwner \in Callers \cup {Worker, NoOwner}
    /\ launches \in 0..1

\* C1: once the state is Done, Aborted or Failed, no step of any thread
\* changes it.
C1_TerminalStateIsFinal == [][(state \in _DoneStates) => (state' = state)]_vars

\* a caller has run the body of abort() or start() on a transfer the worker
\* had already finished
C1_Witness ==
    /\ state \in {Done, Failed}
    /\ wpc = "done"
    /\ \E c \in Callers : cpc[c] \in {"abort_finally", "start_finally"}

\* C2: from Aborting the state moves only to Aborted, and an abort requested
\* while Connecting is not lost when the data stream opens: the worker does not
\* make the state Running after it.
C2_AbortingLeadsOnlyToAborted ==
    [][/\ state = Aborting => state' \in {Aborting, Aborted}
       /\ Connecting \in abortSeen => state' # Running]_vars

\* C3: abort() called while Connecting or Running returns normally and sets
\* the state to Aborting.
C3_AbortSetsAborting ==
    [][\A c \in Callers :
           (AbortBodyStep(c) /\ state \in {Connecting, Running})
               => (state' = Aborting /\ cres'[c] = "abort_ok")]_vars

\* C4: abort() called while Done, Aborted or Failed raises nothing and leaves
\* the state unchanged.
C4_AbortTerminalIsSilent ==
    [][\A c \in Callers :
           (AbortBodyStep(c) /\ state \in _DoneStates)
               => (state' = state /\ cres'[c] = "abort_ok")]_vars

\* C5: the exception getException() returns is set if and only if the state
\* is Failed.
C5_CauseIffFailed == (exception # None) <=> (state = Failed)

\* C6: abort() on a Queued transfer sets the state to Aborted; from then on the
\* worker is never started, every start() raises, and no filesystem or network
\* call is made, so that no file or directory is created.
C6_QueuedAbort ==
    [][/\ \A c \in Callers :
              (AbortBodyStep(c) /\ state = Queued)
                  => (state' = Aborted /\ cres'[c] = "abort_ok")
       /\ Queued \in abortSeen' =>
              /\ wpc' = "unstarted"
              /\ launches' = 0
              /\ ~fsTouched' /\ ~netTouched'
              /\ dirKind' = dir0 /\ fileExists' = exists0
              /\ fileData' = IF exists0 THEN OldData ELSE <<>>
              /\ \A c \in Callers : StartBodyStep(c) => cres'[c] = "RuntimeError"
              /\ \A c \in Callers : cpc'[c] # "start_launch"]_vars

\* a start() called after the transfer was aborted while Queued is being refused
C6_Witness ==
    /\ Queued \in abortSeen
    /\ \E c \in Callers : cpc[c] = "start_finally" /\ cres[c] = "RuntimeError"

\* C7: start() in a state other than Queued raises, leaves the state unchanged
\* and starts no thread; the worker thread is started at most once.
C7_StartOnlyWhenQueued ==
    [][/\ \A c \in Callers :
              (StartBodyStep(c) /\ state # Queued)
                  => (state' = state /\ cres'[c] = "RuntimeError")
       /\ \A c \in Callers :
              (cpc[c] = "start_finally" /\ cres[c] = "RuntimeError" /\ cpc'[c] # cpc[c])
                  => (cpc'[c] = "idle" /\ wpc' = wpc /\ launches' = launches)
       /\ launches' <= 1]_vars

\* two threads call start() at once: one has won and is about to start the
\* thread, the other is being refused
C7_Witness ==
    \E c, d \in Callers :
        /\ c # d
        /\ cpc[c] = "start_launch"
        /\ cpc[d] = "start_finally"
        /\ cres[d] = "RuntimeError"

\* C8: whenever the state is Done, Aborted or Failed, the destination file is
\* not open.
C8_TerminalFileClosed == state \in _DoneStates => toFile # "open"

\* the worker opened the file, wrote to it, and has made the state terminal
C8_Witness == state \in _DoneStates /\ cuDidOpen /\ written > 0 /\ toFile = None

\* C9: when the worker has polled for the abort request in the copy loop after
\* abort() was called on the Running transfer, and no call of the worker has raised, then once the
\* worker has finished the state is Aborted, the destination file does not
\* exist, no exception is recorded and readBytes is the number of bytes written
\* to the file.
C9_AbortMidStream ==
    (abortPolled /\ ~faulted /\ wpc = "done") =>
        /\ state = Aborted
        /\ ~fileExists
        /\ exception = None
        /\ readBytes = written

\* C10: a failure of _toPrep ends in Failed with that error recorded, with no
\* network call made, no file opened and the filesystem as it was.
C10_PreflightFailure ==
    (prepErr \in PreflightErrors /\ wpc = "done") =>
        /\ state = Failed
        /\ exception = prepErr
        /\ ~netTouched
        /\ toFile = None /\ ~cuDidOpen
        /\ dirKind = dir0 /\ fileExists = exists0
        /\ fileData = IF exists0 THEN OldData ELSE <<>>

\* the faults of the calls made after _toPrep and open(): connect and login,
\* TYPE, RETR, recv, write
TransferFaults == {"ftp:connect", "ftp:type", "ftp:retr", "socket:recv", "OSError:write"}

\* the worker thread has ended: _getTask returned, or an exception left it
WorkerEnded == wpc \in {"done", "dead"}

\* C11: a fault raised by connect/login, TYPE, RETR, recv or write ends in
\* Failed with the fault recorded, the file and the socket closed and the
\* destination file deleted.
C11_FaultEndsFailed ==
    (cuExc \in TransferFaults /\ WorkerEnded) =>
        /\ state = Failed
        /\ exception = cuExc
        /\ toFile = None
        /\ fromSocket = None
        /\ ~fileExists

\* C12: when no call of the worker raises and abort() is not called, the
\* worker ends with the state Done, readBytes the number of bytes the stream
\* delivered, and the destination file holding exactly the delivered chunks in
\* order, whether or not the file existed before.
C12_SuccessfulRun ==
    (wpc = "done" /\ ~faulted /\ prepErr = None /\ abortSeen = {}) =>
        /\ state = Done
        /\ exception = None
        /\ stream = <<>>
        /\ readBytes = SeqSum(delivered)
        /\ fileExists
        /\ fileData = delivered

\* a transfer of two different chunks over an existing file (overwrite) is Done
C12_Witness ==
    /\ wpc = "done" /\ state = Done
    /\ ~faulted /\ abortSeen = {}
    /\ exists0 /\ overwrite
    /\ delivered = <<2, 1>>

\* C13: readBytes never decreases, in any step of any thread.
C13_ReadBytesMonotonic == [][readBytes' >= readBytes]_vars

\* readBytes has grown twice while a caller is inside start() or abort()
C13_Witness ==
    /\ readBytes = 3
    /\ Len(delivered) = 2
    /\ \E c \in Callers : cpc[c] # "idle"

\* the thread that holds the lock takes this step
HolderSteps ==
    \/ lockOwner = Worker /\ wpc' # wpc
    \/ lockOwner \in Callers /\ cpc'[lockOwner] # cpc[lockOwner]

\* _state is assigned only by the thread holding the lock
StateWrittenUnderLock == state' # state => HolderSteps

\* _readBytes, _totBytes and _exception, which only the worker assigns, are
\* assigned with the lock held
WorkerFieldsWrittenUnderLock ==
    (readBytes' # readBytes \/ totBytes' # totBytes \/ exception' # exception)
        => lockOwner = Worker

\* the positions at which the worker makes a blocking call: _toPrep, open,
\* connect, TYPE, RETR, recv, write, the two close() and os.remove
BlockingPositions ==
    {"prep", "open", "connect", "type", "retr", "recv", "write", "cu_file", "cu_sock",
     "cu_remove"}

\* the worker makes no blocking call while it holds the lock
NoBlockingCallUnderLock ==
    (wpc \in BlockingPositions /\ (wpc' # wpc \/ faulted' # faulted)) => lockOwner # Worker

C15_QueuedTouchesNothing ==
    /\ state = Queued =>
           /\ wpc = "unstarted" /\ launches = 0
           /\ ~fsTouched /\ ~netTouched
           /\ dirKind = dir0 /\ fileExists = exists0
           /\ fileData = IF exists0 THEN OldData ELSE <<>>
    /\ (\A c \in Callers : cpc[c] \in {"idle", "start_locked", "abort_locked"})
           /\ wpc = "unstarted" /\ abortSeen = {}
           => state = Queued

\* a transfer constructed with startNow false is still Queued while a caller
\* is entering abort()
C15_Witness ==
    /\ state = Queued
    /\ ~inCtor
    /\ \E c \in Callers : cpc[c] = "abort_locked"

\* some caller takes this step
CallerStep == \E c \in Callers : cpc'[c] # cpc[c]

\* C16: a step of start() or abort() leaves the exception, readBytes, totBytes,
\* the file object, the socket, the filesystem and the data stream unchanged.
C16_CallersTouchOnlyState ==
    [][CallerStep =>
           UNCHANGED <<exception, readBytes, totBytes, toFile, fromSocket, fsVars, netVars>>]_vars

\* the body of abort() has run while the worker has the file and the socket open
C16_Witness ==
    /\ toFile = "open"
    /\ fromSocket = "open"
    /\ readBytes > 0
    /\ \E c \in Callers : cpc[c] = "abort_finally"

\* C17: when _cleanup is called again on a transfer that is already done, the
\* call changes neither the state nor the recorded exception, and it leaves
\* the destination file as it is.
C17_CleanupAgainChangesNothing ==
    [][cuSite' = "again" =>
           UNCHANGED <<state, exception, fileExists, fileData>>]_vars

\* a second call _cleanup(Failed, e) has returned on a transfer that is Done:
\* the file is there and no exception is recorded
C17_Witness ==
    /\ cuSite = "again" /\ wpc = "done"
    /\ cuNewState = Failed
    /\ state = Done
    /\ fileExists /\ fileData = delivered
    /\ exception = None

\* the positions of the try block from the first network call to the loop
AfterOpenPositions ==
    {"connect", "type", "retr", "run_acq", "run_locked", "run_finally", "recv", "check",
     "count", "write"}

C19_WorkerEndsTerminal == WorkerEnded => state \in _DoneStates

\* the positions at which a caller, and the worker, hold the lock
CallerLockedPositions == {"start_locked", "start_finally", "abort_locked", "abort_finally"}
WorkerLockedPositions ==
    {"run_locked", "run_finally", "cu_locked", "cu_finally", "cu_finally_return"}

\* C20: a thread holds the lock exactly between an acquire and the release of
\* the finally clause that follows it, on the raising and returning paths
\* alike, and the thread holding the lock can always take its next step; so a
\* thread waiting for the lock is never left waiting by one that has gone.
C20_LockAlwaysReleased ==
    /\ \A c \in Callers : lockOwner = c <=> cpc[c] \in CallerLockedPositions
    /\ lockOwner = Worker <=> wpc \in WorkerLockedPositions
    /\ lockOwner # NoOwner => ENABLED (Next /\ HolderSteps)

\* the worker waits for the lock in _cleanup while a caller whose abort() is
\* about to raise TypeError holds it
C20_Witness ==
    /\ wpc = "cu_acq"
    /\ \E c \in Callers :
           /\ lockOwner = c
           /\ cpc[c] = "abort_finally"
           /\ cres[c] = "TypeError"
====
